---- MODULE Spec2Model ----
(***************************************************************************)
(* Model of epg_acontra.py: the extraction-and-repair pipeline that turns  *)
(* a live-TV page into an XMLTV listing for one channel.                   *)
(*                                                                         *)
(* Text is modelled as a sequence of one-character strings, so that        *)
(* strip, rstrip, replace, startswith and endswith do what str does.       *)
(* A JSON object (a Python dict) is a function whose DOMAIN is the set of  *)
(* keys present; dict.get(k, d) is Get(d, k, default).                     *)
(***************************************************************************)
EXTENDS Integers, Sequences, FiniteSets, TLC

VARIABLES
    schedule,        \* the decoded schedule: a list of raw entries
    programs,        \* the list parse_programs_from_json returns
    npc,             \* the Normalizer alone: "input", "done"
    segment,         \* match.group(2): the captured text
    schedule_clean,  \* the repaired text
    decoded,         \* json.loads(schedule_clean)
    again,           \* the repair applied to schedule_clean
    rpc,             \* the Repairer alone: "input", "repaired", "decoded", "again"
    html,            \* the page text
    pc,              \* main(): where the run is
    writes           \* number of times the output file was written

nvars == <<schedule, programs, npc>>
rvars == <<segment, schedule_clean, decoded, again, rpc>>
mvars == <<html, pc, writes>>
vars == <<nvars, rvars, mvars>>

\* ------------------------------------------------------------------ bounds
\* Longest schedule handed to parse_programs_from_json.
MaxLen == 3
\* Largest `end` timestamp (milliseconds) an entry carries.
MaxEnd == 2
\* Longest captured segment handed to the Repairer, in characters.
MaxSeg == 5
\* Longest page text, in tokens.
MaxHtml == 5

\* -------------------------------------------------------------------- text
\* Whitespace as str.strip() sees it (space, newline).
IsSpace(c) == c \in {" ", "\n"}

RECURSIVE LStrip(_)
LStrip(s) == IF s # <<>> /\ IsSpace(Head(s)) THEN LStrip(Tail(s)) ELSE s

RECURSIVE RStrip(_)
RStrip(s) ==
    IF s # <<>> /\ IsSpace(s[Len(s)]) THEN RStrip(SubSeq(s, 1, Len(s) - 1)) ELSE s

\* str.strip()
Strip(s) == LStrip(RStrip(s))

\* str.replace("\\", ""): every backslash removed.
RemoveBackslashes(s) == SelectSeq(s, LAMBDA c : c # "\\")

\* clean() without the replace: backslashes stay.
clean_StripOnly(s) == Strip(s)

\* clean(): str(s).strip().replace("\\", ""); the strip comes first.
clean(s) == RemoveBackslashes(Strip(s))

\* dict.get(key, default)
Get(d, k, default) == IF k \in DOMAIN d THEN d[k] ELSE default

\* The empty dict {} and the empty string "".
EmptyDict == <<>>
EmptyStr == <<>>

ALL == <<"A", "L", "L">>
TodasLasEdades ==
    <<"T", "o", "d", "a", "s", " ", "l", "a", "s", " ", "e", "d", "a", "d", "e", "s">>
SinTitulo == <<"S", "i", "n", " ", "t", "i", "t", "u", "l", "o">>

\* Two hours counted in seconds, not milliseconds.
TwoHours_InSeconds == 2 * 3600

\* 2*3600*1000 milliseconds
TwoHours == 2 * 3600 * 1000

\* --------------------------------------------------------------- json.loads
\* JSON values: a number, an array, an object (a dict).
JNum(n) == [t |-> "num", n |-> n, items |-> <<>>, obj |-> <<>>]
JArr(xs) == [t |-> "arr", n |-> 0, items |-> xs, obj |-> <<>>]
JObj(d) == [t |-> "obj", n |-> 0, items |-> <<>>, obj |-> d]

\* A JSONDecodeError.
ParseFail == [ok |-> FALSE, val |-> JNum(0), rest |-> <<>>]
JFail == [ok |-> FALSE, val |-> JNum(0)]

\* The text of the model is made of these characters. "1" is a digit, so a
\* run of them is a number. "E" and "N" each stand for the text of one JSON
\* object: "E" an entry with an `end`, "N" one without. "M" stands for the
\* text the locator's pattern matches up to and including `"schedule":[`.
ObjectOf(c) == IF c = "E" THEN [end |-> 1] ELSE <<>>

RECURSIVE DigitsLen(_)
DigitsLen(s) == IF s # <<>> /\ Head(s) = "1" THEN 1 + DigitsLen(Tail(s)) ELSE 0

RECURSIVE NumOf(_)
NumOf(k) == IF k = 0 THEN 0 ELSE 10 * NumOf(k - 1) + 1

\* One JSON value at the head of s, after whitespace; `rest` is what follows.
RECURSIVE ParseValue(_)
RECURSIVE ParseElements(_, _)
ParseValue(s) ==
    LET t == LStrip(s)
    IN  IF t = <<>> THEN ParseFail
        ELSE IF Head(t) = "1"
        THEN [ok |-> TRUE, val |-> JNum(NumOf(DigitsLen(t))),
              rest |-> SubSeq(t, DigitsLen(t) + 1, Len(t))]
        ELSE IF Head(t) \in {"E", "N"}
        THEN [ok |-> TRUE, val |-> JObj(ObjectOf(Head(t))), rest |-> Tail(t)]
        ELSE IF Head(t) = "["
        THEN LET u == LStrip(Tail(t))
             IN  IF u # <<>> /\ Head(u) = "]"
                 THEN [ok |-> TRUE, val |-> JArr(<<>>), rest |-> Tail(u)]
                 ELSE ParseElements(Tail(t), <<>>)
        ELSE ParseFail

\* The elements of an array whose "[" is consumed: value ("," value)* "]".
ParseElements(s, acc) ==
    LET r == ParseValue(s)
        u == LStrip(r.rest)
    IN  IF ~r.ok \/ u = <<>> THEN ParseFail
        ELSE IF Head(u) = "," THEN ParseElements(Tail(u), Append(acc, r.val))
        ELSE IF Head(u) = "]"
        THEN [ok |-> TRUE, val |-> JArr(Append(acc, r.val)), rest |-> Tail(u)]
        ELSE ParseFail

\* json.loads: one value, then nothing but whitespace.
json_loads(s) ==
    LET r == ParseValue(s)
    IN  IF r.ok /\ LStrip(r.rest) = <<>> THEN [ok |-> TRUE, val |-> r.val] ELSE JFail

\* ----------------------------------------------------- extract_channel_json
\* str.rstrip(","): every trailing comma removed.
RECURSIVE RStripCommas(_)
RStripCommas(s) ==
    IF s # <<>> /\ s[Len(s)] = "," THEN RStripCommas(SubSeq(s, 1, Len(s) - 1)) ELSE s

StartsWith(s, c) == s # <<>> /\ Head(s) = c
EndsWith(s, c) == s # <<>> /\ s[Len(s)] = c

\* The repair without the endswith test: "]" is always appended.
repair_AlwaysAppend(seg) ==
    LET stripped == RStripCommas(Strip(seg))
        opened == IF ~StartsWith(stripped, "[") THEN <<"[">> \o stripped ELSE stripped
    IN  opened \o <<"]">>

\* Lines 40-45: strip, rstrip(","), then the brackets.
repair(seg) ==
    LET schedule_str == Strip(seg)
        stripped == RStripCommas(schedule_str)
        opened == IF ~StartsWith(stripped, "[") THEN <<"[">> \o stripped ELSE stripped
    IN  IF ~EndsWith(opened, "]") THEN opened \o <<"]">> ELSE opened

\* re.search(pattern, html, re.DOTALL): the leftmost marker that a "]"
\* follows; group(2) is the text up to the first such "]" (lazy .*?).
MarkerAt(h) == {i \in 1..Len(h) : h[i] = "M"}
CloseAfter(h, m) == {i \in (m + 1)..Len(h) : h[i] = "]"}
Min(S) == CHOOSE x \in S : \A y \in S : x <= y

Matches(h) == MarkerAt(h) # {} /\ CloseAfter(h, Min(MarkerAt(h))) # {}
Group2(h) ==
    LET m == Min(MarkerAt(h))
    IN  SubSeq(h, m + 1, Min(CloseAfter(h, m)) - 1)

\* extract_channel_json: how it ends, and the schedule it returns.
extract_channel_json(h) ==
    IF ~Matches(h) THEN [status |-> "not_found", schedule |-> <<>>]
    ELSE LET r == json_loads(repair(Group2(h)))
         IN  IF ~r.ok THEN [status |-> "malformed", schedule |-> <<>>]
             ELSE [status |-> "ok", schedule |-> r.val.items]

\* ------------------------------------------------- parse_programs_from_json
\* `if not end_ms: continue`: a missing `end` (None) and the integer 0 are
\* both falsy.
Skipped(item) == "end" \notin DOMAIN item \/ item["end"] = 0

\* raw_title without the fallback to image.alternateText.
RawTitle_NoFallback(metadata) == Get(metadata, "title", EmptyStr)

\* raw_title: metadata.title, or image.alternateText when that is falsy.
RawTitle(metadata) ==
    LET t == Get(metadata, "title", EmptyStr)
        image_obj == Get(metadata, "image", EmptyDict)
    IN  IF t = EmptyStr THEN Get(image_obj, "alternateText", EmptyStr) ELSE t

\* title or "Sin título"
TitleOf(metadata) ==
    LET title == clean(RawTitle(metadata))
    IN  IF title = EmptyStr THEN SinTitulo ELSE title

\* rating: cleaned, then "ALL" translated.
RatingOf(metadata) ==
    LET content_rating == Get(metadata, "contentMaturityRating", EmptyDict)
        rating == clean(Get(content_rating, "rating", EmptyStr))
    IN  IF rating = ALL THEN TodasLasEdades ELSE rating

\* The dict appended for one retained item; start_ms is assigned later.
BuildProgram(item) ==
    LET metadata == Get(item, "metadata", EmptyDict)
    IN  [title |-> TitleOf(metadata),
         rating |-> RatingOf(metadata),
         end_ms |-> item["end"]]

\* The for loop: one program per item that is not skipped, in input order.
RECURSIVE BuildPrograms(_)
BuildPrograms(s) ==
    IF s = <<>> THEN <<>>
    ELSE IF Skipped(Head(s)) THEN BuildPrograms(Tail(s))
    ELSE <<BuildProgram(Head(s))>> \o BuildPrograms(Tail(s))

\* An unstable insertion: an element goes before the elements of equal key.
InsertByEnd_BeforeTies(sorted, p) ==
    LET k == Cardinality({i \in 1..Len(sorted) : sorted[i].end_ms < p.end_ms})
    IN  SubSeq(sorted, 1, k) \o <<p>> \o SubSeq(sorted, k + 1, Len(sorted))

\* list.sort(key=end_ms) is stable: an element goes after every element
\* whose key is not greater.
InsertByEnd(sorted, p) ==
    LET k == Cardinality({i \in 1..Len(sorted) : sorted[i].end_ms <= p.end_ms})
    IN  SubSeq(sorted, 1, k) \o <<p>> \o SubSeq(sorted, k + 1, Len(sorted))

\* The sort left out: the list stays in input order.
SortByEnd_Unsorted(s) == s

RECURSIVE SortByEnd(_)
SortByEnd(s) ==
    IF s = <<>> THEN <<>>
    ELSE InsertByEnd(SortByEnd(SubSeq(s, 1, Len(s) - 1)), s[Len(s)])

\* The two-hour heuristic applied to every element.
StartOf_HeuristicEverywhere(sorted, i) == sorted[i].end_ms - TwoHours

\* programs[i]["start_ms"] for the i-th element (1-based) of the sorted list.
StartOf(sorted, i) ==
    IF i > 1 THEN sorted[i - 1].end_ms ELSE sorted[i].end_ms - TwoHours

AssignStarts(sorted) ==
    [i \in 1..Len(sorted) |->
        [title |-> sorted[i].title,
         rating |-> sorted[i].rating,
         end_ms |-> sorted[i].end_ms,
         start_ms |-> StartOf(sorted, i)]]

parse_programs_from_json(s) == AssignStarts(SortByEnd(BuildPrograms(s)))

\* ------------------------------------------------------------ input domain
\* metadata.title values: empty, blank, and one that clean() changes.
Titles == {EmptyStr, <<" ">>, <<" ", "B", "\\">>}
AltTexts == {EmptyStr, <<"C", " ">>}
Ratings == {ALL, <<" ", "A", "\\", "L", "L">>, <<"1", "6">>, <<"1", "6", " ">>}

TitleDicts == {EmptyDict} \cup {[title |-> t] : t \in Titles}
ImageDicts == {EmptyDict} \cup {[image |-> [alternateText |-> a]] : a \in AltTexts}
RatingDicts ==
    {[contentMaturityRating |-> EmptyDict]}
        \cup {[contentMaturityRating |-> [rating |-> r]] : r \in Ratings}

\* The metadata mappings of the model: every title/alternateText pairing
\* without a rating, and every rating without a title.
Metadatas == {t @@ i : t \in TitleDicts, i \in ImageDicts} \cup RatingDicts

\* `end` absent, or an integer from 0 on.
EndDicts == {EmptyDict} \cup {[end |-> e] : e \in 0..MaxEnd}

\* The raw entries of the model. title/rating do not depend on `end`, and the
\* sort and the start times do not depend on the metadata: every `end` comes
\* without metadata, every metadata with one `end`, and one entry has
\* metadata but no `end`.
Items ==
    EndDicts
        \cup {[metadata |-> [title |-> <<"A">>]]}
        \cup {[end |-> 1, metadata |-> m] : m \in Metadatas}

Schedules == UNION {[1..n -> Items] : n \in 0..MaxLen}

\* ------------------------------------------------------ SpecNormalize
\* The variables a specification does not use stay at these values.
RIdle ==
    /\ segment = <<>>
    /\ schedule_clean = <<>>
    /\ decoded = JFail
    /\ again = <<>>
    /\ rpc = "idle"

MIdle ==
    /\ html = <<>>
    /\ pc = "idle"
    /\ writes = 0

NIdle ==
    /\ schedule = <<>>
    /\ programs = <<>>
    /\ npc = "idle"

NInit ==
    /\ schedule \in Schedules
    /\ programs = <<>>
    /\ npc = "input"
    /\ RIdle
    /\ MIdle

Normalize ==
    /\ npc = "input"
    /\ programs' = parse_programs_from_json(schedule)
    /\ npc' = "done"
    /\ UNCHANGED <<schedule, rvars, mvars>>

NNext == Normalize

SpecNormalize == NInit /\ [][NNext]_vars

\* --------------------------------------------------------- SpecRepair
\* The characters of a captured segment.
SegChars == {"[", "]", ",", " ", "1"}
Segments == UNION {[1..n -> SegChars] : n \in 0..MaxSeg}

RInit ==
    /\ segment \in Segments
    /\ schedule_clean = <<>>
    /\ decoded = JFail
    /\ again = <<>>
    /\ rpc = "input"
    /\ NIdle
    /\ MIdle

\* Lines 40-45 on the captured segment.
Repair ==
    /\ rpc = "input"
    /\ schedule_clean' = repair(segment)
    /\ rpc' = "repaired"
    /\ UNCHANGED <<segment, decoded, again, nvars, mvars>>

\* Line 48: json.loads(schedule_clean).
Decode ==
    /\ rpc = "repaired"
    /\ decoded' = json_loads(schedule_clean)
    /\ rpc' = "decoded"
    /\ UNCHANGED <<segment, schedule_clean, again, nvars, mvars>>

\* The repair applied to its own output.
RepairAgain ==
    /\ rpc = "decoded"
    /\ again' = repair(schedule_clean)
    /\ rpc' = "again"
    /\ UNCHANGED <<segment, schedule_clean, decoded, nvars, mvars>>

RNext == Repair \/ Decode \/ RepairAgain

SpecRepair == RInit /\ [][RNext]_vars

\* ----------------------------------------------------------- SpecMain
\* The tokens of a page.
HtmlChars == {"M", "[", "]", ",", "1", "E", "N"}
Htmls == UNION {[1..n -> HtmlChars] : n \in 0..MaxHtml}

\* The ways a run fails: load_html_from_web raises, the marker is not
\* found, the repaired text does not parse, an item of the schedule is not
\* a dict (item.get raises AttributeError), no program is left.
Failures == {"fetch_error", "not_found", "malformed", "crashed", "empty"}

MInit ==
    /\ html \in Htmls
    /\ pc = "start"
    /\ writes = 0
    /\ schedule = <<>>
    /\ programs = <<>>
    /\ npc = "idle"
    /\ RIdle

\* load_html_from_web returns the page text.
FetchOk ==
    /\ pc = "start"
    /\ pc' = "fetched"
    /\ UNCHANGED <<html, writes, nvars, rvars>>

\* load_html_from_web raises RuntimeError.
FetchFail ==
    /\ pc = "start"
    /\ pc' = "fetch_error"
    /\ UNCHANGED <<html, writes, nvars, rvars>>

\* schedule = extract_channel_json(html)
Extract ==
    /\ pc = "fetched"
    /\ LET r == extract_channel_json(html)
       IN  /\ schedule' = r.schedule
           /\ pc' = IF r.status = "ok" THEN "extracted" ELSE r.status
    /\ UNCHANGED <<html, writes, programs, npc, rvars>>

\* programs = parse_programs_from_json(schedule); item.get on an item that
\* is not a dict raises.
Parse ==
    /\ pc = "extracted"
    /\ IF \E i \in 1..Len(schedule) : schedule[i].t # "obj"
       THEN pc' = "crashed" /\ UNCHANGED programs
       ELSE /\ programs' =
                 parse_programs_from_json([i \in 1..Len(schedule) |-> schedule[i].obj])
            /\ pc' = "parsed"
    /\ UNCHANGED <<html, writes, schedule, npc, rvars>>

\* main() without the empty-schedule test.
CheckEmpty_Skipped ==
    /\ pc = "parsed"
    /\ pc' = "checked"
    /\ UNCHANGED <<html, writes, nvars, rvars>>

\* if not programs: raise RuntimeError
CheckEmpty ==
    /\ pc = "parsed"
    /\ pc' = IF programs = <<>> THEN "empty" ELSE "checked"
    /\ UNCHANGED <<html, writes, nvars, rvars>>

\* xml = generate_xmltv_for_channel(programs); the file is opened and written.
WriteOutput ==
    /\ pc = "checked"
    /\ writes' = writes + 1
    /\ pc' = "done"
    /\ UNCHANGED <<html, nvars, rvars>>

MNext == FetchOk \/ FetchFail \/ Extract \/ Parse \/ CheckEmpty \/ WriteOutput

SpecMain == MInit /\ [][MNext]_vars

\* ------------------------------------------------ claims on the Normalizer
NDone == npc = "done"

\* The input entries the loop keeps, in input order.
RetainedItems == SelectSeq(schedule, LAMBDA it : ~Skipped(it))
ItemsWithEnd(e) == SelectSeq(RetainedItems, LAMBDA it : it["end"] = e)
ProgramsWithEnd(e) == SelectSeq(programs, LAMBDA p : p.end_ms = e)
EndsSeen ==
    {programs[i].end_ms : i \in 1..Len(programs)}
        \cup {RetainedItems[i]["end"] : i \in 1..Len(RetainedItems)}

\* C1: the output is a gap-free chain: each program starts at the end of
\* the one before it, also across entries with equal `end`.
C1_GapFree ==
    NDone => \A i \in 1..(Len(programs) - 1) :
                programs[i + 1].start_ms = programs[i].end_ms

\* A three-program output whose first two programs end at the same instant.
C1_Witness ==
    /\ NDone
    /\ Len(programs) = 3
    /\ programs[1].end_ms = programs[2].end_ms
    /\ programs[2].end_ms < programs[3].end_ms

\* C2 as stated: every program starts strictly before it ends.
C2_StrictOrig ==
    NDone => \A i \in 1..Len(programs) : programs[i].start_ms < programs[i].end_ms

\* C2 amended: every program has start_ms <= end_ms, and start_ms = end_ms
\* exactly for a program that ends when its predecessor ends.
C2_StartLeEnd ==
    NDone => \A i \in 1..Len(programs) :
                /\ programs[i].start_ms <= programs[i].end_ms
                /\ programs[i].start_ms = programs[i].end_ms
                      <=> (i > 1 /\ programs[i - 1].end_ms = programs[i].end_ms)

\* A program of zero duration next to one of positive duration.
C2_Witness ==
    /\ NDone
    /\ \E i \in 1..Len(programs) : programs[i].start_ms = programs[i].end_ms
    /\ \E i \in 2..Len(programs) : programs[i].start_ms < programs[i].end_ms

\* C3: one program per input entry that carries an `end`, none for the
\* others: the output is as long as the number of entries that have `end`.
C3_OnePerEntryWithEnd ==
    NDone => Len(programs)
                = Cardinality({i \in 1..Len(schedule) : "end" \in DOMAIN schedule[i]})

\* C4: the output is sorted ascending by end_ms and the sort is stable:
\* the programs that end at one instant are those of the retained entries
\* with that `end`, in input order.
C4_SortedStable ==
    NDone =>
        /\ \A i \in 1..(Len(programs) - 1) : programs[i].end_ms <= programs[i + 1].end_ms
        /\ \A e \in EndsSeen :
              /\ Len(ProgramsWithEnd(e)) = Len(ItemsWithEnd(e))
              /\ \A k \in 1..Len(ItemsWithEnd(e)) :
                    /\ ProgramsWithEnd(e)[k].title = BuildProgram(ItemsWithEnd(e)[k]).title
                    /\ ProgramsWithEnd(e)[k].rating = BuildProgram(ItemsWithEnd(e)[k]).rating

\* Two entries with equal `end` and different titles, given after an entry
\* that ends later.
C4_Witness ==
    /\ NDone
    /\ Len(programs) = 3
    /\ programs[1].end_ms = programs[2].end_ms
    /\ programs[1].title # programs[2].title
    /\ schedule[1]["end"] = programs[3].end_ms
    /\ programs[3].end_ms > programs[2].end_ms

\* C5: a non-empty output's first program, the one with the smallest end_ms,
\* starts 7,200,000 ms before it ends; every other program's start is its
\* predecessor's end, not the heuristic.
C5_FirstHeuristic ==
    (NDone /\ programs # <<>>) =>
        /\ programs[1].start_ms = programs[1].end_ms - 7200000
        /\ \A i \in 1..Len(programs) : programs[1].end_ms <= programs[i].end_ms
        /\ \A i \in 2..Len(programs) : programs[i].start_ms = programs[i - 1].end_ms

\* The entry with the smallest `end` is not the first of the input.
C5_Witness ==
    /\ NDone
    /\ Len(programs) >= 2
    /\ schedule[1]["end"] > programs[1].end_ms

\* The title the claim's fallback chain gives: metadata.title if non-empty,
\* else image.alternateText if non-empty, else the placeholder.
ChainTitle(metadata) ==
    LET t == Get(metadata, "title", EmptyStr)
        a == Get(Get(metadata, "image", EmptyDict), "alternateText", EmptyStr)
    IN  IF t # EmptyStr THEN t ELSE IF a # EmptyStr THEN a ELSE SinTitulo

\* The chain with the cleaning the code applies: the first non-empty of
\* title and alternateText, trimmed and without backslashes; the placeholder
\* when nothing is left.
CleanedChainTitle(metadata) ==
    LET t == Get(metadata, "title", EmptyStr)
        a == Get(Get(metadata, "image", EmptyDict), "alternateText", EmptyStr)
        c == RemoveBackslashes(Strip(IF t # EmptyStr THEN t ELSE a))
    IN  IF c # EmptyStr THEN c ELSE SinTitulo

\* C9 as stated: every program's title is non-empty and is the chain's.
C9_ChainOrig ==
    NDone => \A e \in EndsSeen : \A k \in 1..Len(ItemsWithEnd(e)) :
                /\ ProgramsWithEnd(e)[k].title # EmptyStr
                /\ ProgramsWithEnd(e)[k].title
                      = ChainTitle(Get(ItemsWithEnd(e)[k], "metadata", EmptyDict))

\* C9 amended: every program's title is non-empty and is the cleaned text of
\* the first non-empty of metadata.title and image.alternateText, or the
\* placeholder when that cleaned text is empty.
C9_CleanedChain ==
    NDone => \A e \in EndsSeen : \A k \in 1..Len(ItemsWithEnd(e)) :
                /\ ProgramsWithEnd(e)[k].title # EmptyStr
                /\ ProgramsWithEnd(e)[k].title
                      = CleanedChainTitle(Get(ItemsWithEnd(e)[k], "metadata", EmptyDict))

\* An entry with an empty title and a non-empty alternateText, one with both
\* empty, and one with a blank title beside a non-empty alternateText.
C9_Witness ==
    /\ NDone
    /\ Len(programs) = 3
    /\ schedule[1] = [end |-> 1, metadata |->
                        [title |-> EmptyStr, image |-> [alternateText |-> <<"C", " ">>]]]
    /\ schedule[2] = [end |-> 1, metadata |->
                        [title |-> EmptyStr, image |-> [alternateText |-> EmptyStr]]]
    /\ schedule[3] = [end |-> 1, metadata |->
                        [title |-> <<" ">>, image |-> [alternateText |-> <<"C", " ">>]]]
    /\ programs[1].title = <<"C">>
    /\ programs[2].title = SinTitulo
    /\ programs[3].title = SinTitulo

\* The raw contentMaturityRating.rating of an entry, "" when absent.
RawRating(item) ==
    Get(Get(Get(item, "metadata", EmptyDict), "contentMaturityRating", EmptyDict),
        "rating", EmptyStr)

\* C10 as stated: "ALL" yields the all-ages label, any other code passes
\* through unchanged, an absent rating yields the empty string.
C10_RatingOrig ==
    NDone => \A e \in EndsSeen : \A k \in 1..Len(ItemsWithEnd(e)) :
                ProgramsWithEnd(e)[k].rating
                   = IF RawRating(ItemsWithEnd(e)[k]) = ALL
                     THEN TodasLasEdades
                     ELSE RawRating(ItemsWithEnd(e)[k])

\* C10 amended: the rating is trimmed and stripped of backslashes first; a
\* cleaned rating of "ALL" yields the all-ages label, any other cleaned
\* rating passes through as cleaned, an absent rating yields "".
C10_RatingCleaned ==
    NDone => \A e \in EndsSeen : \A k \in 1..Len(ItemsWithEnd(e)) :
                LET c == RemoveBackslashes(Strip(RawRating(ItemsWithEnd(e)[k])))
                IN  ProgramsWithEnd(e)[k].rating
                       = IF c = ALL THEN TodasLasEdades ELSE c

\* "ALL", a rating that cleans to "ALL", and another code, in one schedule.
C10_Witness ==
    /\ NDone
    /\ Len(programs) = 3
    /\ RawRating(schedule[1]) = ALL
    /\ RawRating(schedule[2]) = <<" ", "A", "\\", "L", "L">>
    /\ RawRating(schedule[3]) = <<"1", "6">>
    /\ programs[1].rating = TodasLasEdades
    /\ programs[2].rating = TodasLasEdades
    /\ programs[3].rating = <<"1", "6">>

\* ------------------------------------------------- claims on the Repairer
\* The repair as the specification words it: trim surrounding whitespace,
\* strip a single trailing comma if present, prepend "[" if the result does
\* not start with it, append "]" if it does not end with it.
SingleCommaRepair(seg) ==
    LET trimmed == Strip(seg)
        stripped == IF EndsWith(trimmed, ",")
                    THEN SubSeq(trimmed, 1, Len(trimmed) - 1)
                    ELSE trimmed
        opened == IF StartsWith(stripped, "[") THEN stripped ELSE <<"[">> \o stripped
    IN  IF EndsWith(opened, "]") THEN opened ELSE opened \o <<"]">>

\* C7: the repaired text is exactly what that algorithm gives, so it starts
\* with "[" and ends with "]".
C7_SpecAlgorithm ==
    rpc # "input" =>
        /\ schedule_clean = SingleCommaRepair(segment)
        /\ StartsWith(schedule_clean, "[")
        /\ EndsWith(schedule_clean, "]")

\* C8: repairing a well-formed array leaves it parseable to the same value,
\* and repairing the repaired text changes nothing.
C8_Idempotent ==
    /\ rpc = "again" => again = schedule_clean
    /\ (rpc \in {"decoded", "again"} /\ json_loads(segment).ok
            /\ json_loads(segment).val.t = "arr")
          => decoded = json_loads(segment)

\* A well-formed, non-empty array that the repair changed, repaired twice.
C8_Witness ==
    /\ rpc = "again"
    /\ json_loads(segment).ok
    /\ json_loads(segment).val.t = "arr"
    /\ Len(decoded.val.items) >= 1
    /\ schedule_clean # segment

\* ------------------------------------------------------ claims on main()
\* What the page holds, whatever the run has done so far.
MarkerFound == Matches(html)
SegmentParses == MarkerFound /\ json_loads(repair(Group2(html))).ok
ItemsOf == json_loads(repair(Group2(html))).val.items
AllDicts == SegmentParses /\ \A i \in 1..Len(ItemsOf) : ItemsOf[i].t = "obj"
SomeProgram == AllDicts /\ \E i \in 1..Len(ItemsOf) : ~Skipped(ItemsOf[i].obj)

\* C6: the file is written at most once, and only by a run whose fetch,
\* locate, repair, decode and normalize all succeeded with a non-empty list;
\* a run whose fetch failed, whose page lacks the marker, whose repaired
\* segment does not parse or whose schedule is empty ends failed, with no write.
C6_WriteOnlyOnSuccess ==
    /\ writes <= 1
    /\ writes = 1 => (pc = "done" /\ SomeProgram /\ programs # <<>>)
    /\ pc \in Failures => writes = 0
    /\ (~MarkerFound /\ pc \notin {"start", "fetched"})
          => pc \in {"fetch_error", "not_found"}
    /\ (MarkerFound /\ ~SegmentParses /\ pc \notin {"start", "fetched"})
          => pc \in {"fetch_error", "malformed"}
    /\ (AllDicts /\ ~SomeProgram /\ pc \notin {"start", "fetched", "extracted", "parsed"})
          => pc \in {"fetch_error", "empty"}

\* A run that wrote the file, for a page with two programs.
C6_Witness ==
    /\ pc = "done"
    /\ writes = 1
    /\ Len(programs) = 2

\* A run that ended on an empty schedule without a write.
C6_WitnessEmpty == pc = "empty" /\ writes = 0 /\ Len(schedule) >= 1

====
